---- MODULE Spec2Model ----
(***************************************************************************)
(* A model of the ParamSpectra fitting object of                           *)
(* SPBAND/parameterize_spectra.py: its construction, add_data, fit and     *)
(* get_params_out, with the solvers of scipy abstracted to their outcome.  *)
(*                                                                         *)
(* Frequencies are integers in tenths of a Hz (0.3 Hz is 3, 60 Hz is 600). *)
(* Linear power values are small integers, their base-10 logarithm is      *)
(* computed by Log10 below.  The prominence is in tenths.                  *)
(***************************************************************************)
EXTENDS Integers, Sequences, FiniteSets, TLC

VARIABLES
    self,        \* the fields of the ParamSpectra object
    ctor,        \* the arguments the constructor was called with
    call,        \* the last call of __init__, add_data or fit, and how it ended
    out,         \* the last call of get_params_out since then, and how it ended
    fit_called,  \* whether fit has been called on the object
    ncalls,      \* how many times add_data and fit have been called
    record_on    \* the spectrum the aperiodic parameters held were fitted on:
                 \* "current" (the attached one), "kept" (one replaced by
                 \* add_data with clear_results=False), "replaced" (one replaced
                 \* otherwise), "none" (no parameters are held)

vars == <<self, ctor, call, out, fit_called, ncalls, record_on>>

----------------------------------------------------------------------------
(* Bounds of the model *)

\* the longest input array
MaxLen == 4

\* the calls of add_data and fit made on one object
MaxCalls == 2

----------------------------------------------------------------------------
(* Values *)

\* Python's None, and a value that is not None
None == <<>>
Some(x) == <<x>>
IsNone(v) == v = <<>>
Get(v) == v[1]

\* np.nan and -np.inf among the integers that stand for floats
NaN == -2000
NegInf == -1000
isnan(v) == v = NaN
isinf(v) == v = NegInf

\* a float result field: nan, or a value with the name of the step that set it
NanValue == <<"nan">>
IsNanValue(v) == v[1] = "nan"

Min(S) == CHOOSE x \in S : \A y \in S : x <= y
Max(S) == CHOOSE x \in S : \A y \in S : x >= y
Range(s) == {s[i] : i \in 1..Len(s)}
\* the elements of s at the indices in K, in order (numpy's mask indexing)
SelectIdx(s, K) ==
    LET F[i \in 0..Len(s)] ==
            IF i = 0 THEN <<>>
            ELSE IF i \in K THEN Append(F[i-1], s[i]) ELSE F[i-1]
    IN F[Len(s)]

\* np.log10 of a linear power value
Log10(p) ==
    CASE p < 0 -> NaN
      [] p = 0 -> NegInf
      [] p = 1 -> 0
      [] p = 10 -> 1
      [] p = 100 -> 2
      [] OTHER -> 3

----------------------------------------------------------------------------
(* Band specification *)

\* the named presets of str2band, in tenths of a Hz
StandardBands ==
    << <<3, 15>>, <<15, 40>>, <<40, 80>>, <<80, 125>>, <<125, 300>>,
       <<300, 700>>, <<700, 1500>>, <<1500, 2500>> >>
StandardNoHighBands == SubSeq(StandardBands, 1, 7)

\* the preset of the bands of Buzsaki and Draguhn, in tenths of a Hz (1/0.7 Hz
\* is 1.43 Hz)
BuzsakiBands ==
    << <<2, 5>>, <<5, 14>>, <<15, 40>>, <<40, 100>>, <<100, 300>>,
       <<300, 800>>, <<800, 2000>>, <<2000, 6000>> >>

\* the most bands of the 'log' scheme
MaxLogPeaks == 62

\* np.linspace(l_freq, h_freq, num=max_n_peaks+1), paired into bins
LinearBands(n, l_freq, h_freq) ==
    [i \in 1..n |-> << l_freq + ((i-1) * (h_freq - l_freq)) \div n,
                       l_freq + (i * (h_freq - l_freq)) \div n >>]

\* logarithm and exponential in fixed point: LogScale times the base-2
\* logarithm of x, linear between the powers of two, and its inverse; the
\* two are monotone and Exp2(Log2(x)) = x for 0 < x < 2 * LogScale
LogScale == 4096
Log2(x) ==
    LET k == CHOOSE j \in 0..30 : 2^j <= x /\ x < 2^(j+1)
    IN LogScale * k + (LogScale * (x - 2^k)) \div 2^k
Exp2(e) == 2^(e \div LogScale) + (2^(e \div LogScale) * (e % LogScale)) \div LogScale

\* lo * exp(i * log(hi / lo) / n), the i-th of the n+1 points from lo to hi
\* that are evenly spaced on a log axis; nan when the logarithm is not finite
GeomPoint(lo, hi, i, n) ==
    IF lo <= 0 \/ hi <= 0 THEN NaN
    ELSE Exp2(Log2(lo) + (i * (Log2(hi) - Log2(lo))) \div n)

\* np.logspace(log(l_freq), log(h_freq), num=n+1), paired into bins; the
\* last point is the exponential of log(h_freq) whatever l_freq is
LogBands(n, l_freq, h_freq) ==
    [i \in 1..n |-> << GeomPoint(l_freq, h_freq, i - 1, n),
                       IF i = n /\ h_freq > 0 THEN h_freq
                       ELSE GeomPoint(l_freq, h_freq, i, n) >>]

\* str2band, the division of each band into n_division log-spaced bands
Divide(bins, n_division) ==
    IF n_division > 1
    THEN [j \in 1..(Len(bins) * n_division) |->
            << GeomPoint(bins[(j-1) \div n_division + 1][1],
                         bins[(j-1) \div n_division + 1][2],
                         (j-1) % n_division, n_division),
               GeomPoint(bins[(j-1) \div n_division + 1][1],
                         bins[(j-1) \div n_division + 1][2],
                         ((j-1) % n_division) + 1, n_division) >>]
    ELSE bins

\* str2band, what it returns for a name with the bins common_freq_bins
Resolved(common_freq_bins, bandname, n_division) ==
    [exc |-> "none", bandname |-> bandname,
     bands |-> Divide(common_freq_bins, n_division)]

\* str2band: the band argument is [kind |-> "list", list |-> ...] or
\* [kind |-> "str", name |-> ...] or of another type; the result is
\* the band list and its name, or a ValueError
str2band(bands, max_n_peaks, l_freq, h_freq, n_division) ==
    IF bands.kind = "list"
    THEN [exc |-> "none", bands |-> bands.list, bandname |-> "custom"]
    ELSE IF bands.kind = "str"
    THEN IF bands.name = "log"
         THEN Resolved(LogBands(IF max_n_peaks > MaxLogPeaks THEN MaxLogPeaks
                                ELSE max_n_peaks, l_freq, h_freq),
                       bands.name, n_division)
         ELSE IF bands.name = "linear"
         THEN Resolved(LinearBands(max_n_peaks, l_freq, h_freq), bands.name,
                       n_division)
         ELSE IF bands.name = "log10"
         THEN Resolved(LogBands(max_n_peaks, l_freq, h_freq), bands.name,
                       n_division)
         ELSE IF bands.name = "standard"
         THEN Resolved(StandardBands, bands.name, n_division)
         ELSE IF bands.name = "standard_nohigh"
         THEN Resolved(StandardNoHighBands, bands.name, n_division)
         ELSE IF bands.name = "buzsaki"
         THEN Resolved(BuzsakiBands, bands.name, n_division)
         ELSE [exc |-> "ValueError", bandname |-> "", bands |-> <<>>]
    ELSE [exc |-> "ValueError", bandname |-> "", bands |-> <<>>]

\* a filter that keeps the bands that touch the frequency range from outside
DropBandsInclusive(bands, l_freq, h_freq) ==
    SelectIdx(bands, {i \in 1..Len(bands) : bands[i][1] <= h_freq /\ bands[i][2] >= l_freq})

\* the constructor's filter: drop bands that are above or below the frequency range
DropBands(bands, l_freq, h_freq) ==
    SelectIdx(bands, {i \in 1..Len(bands) : bands[i][1] < h_freq /\ bands[i][2] > l_freq})

----------------------------------------------------------------------------
(* The object *)

\* has_data: np.any(self.power_spectrum)
has_data(s) ==
    /\ ~IsNone(s.power_spectrum)
    /\ \E i \in 1..Len(Get(s.power_spectrum)) : Get(s.power_spectrum)[i] # 0

\* has_model: not np.all(np.isnan(self.aperiodic_params_))
has_model(s) ==
    ~(\A i \in 1..Len(s.aperiodic_params_) : s.aperiodic_params_[i][1] = "nan")

\* the nan placeholder of the aperiodic parameters
NanParams(aperiodic_mode) ==
    [i \in 1..(IF aperiodic_mode = "fixed" THEN 2 ELSE 3) |-> <<"nan">>]

\* a reset that leaves the aperiodic parameters as they are
ClearResultsKeepParams(s) ==
    [s EXCEPT !.gaussian_params_ = <<>>,
              !.peak_params_ = <<>>,
              !.r_squared_ = NanValue,
              !.error_ = NanValue,
              !.modeled_spectrum_ = None,
              !._spectrum_flat = None,
              !._spectrum_peak_rm = None,
              !._ap_fit = None,
              !._peak_fit = None,
              !._noise_pks = None,
              !._noise_ranges = None]

\* a reset that leaves the line-noise results as they are
ClearResultsKeepNoise(s) ==
    [s EXCEPT !.aperiodic_params_ = NanParams(s.aperiodic_mode),
              !.gaussian_params_ = <<>>,
              !.peak_params_ = <<>>,
              !.r_squared_ = NanValue,
              !.error_ = NanValue,
              !.modeled_spectrum_ = None,
              !._spectrum_flat = None,
              !._spectrum_peak_rm = None,
              !._ap_fit = None,
              !._peak_fit = None]

\* _reset_data_results, the results
ClearResults(s) ==
    [s EXCEPT !.aperiodic_params_ = NanParams(s.aperiodic_mode),
              !.gaussian_params_ = <<>>,
              !.peak_params_ = <<>>,
              !.r_squared_ = NanValue,
              !.error_ = NanValue,
              !.modeled_spectrum_ = None,
              !._spectrum_flat = None,
              !._spectrum_peak_rm = None,
              !._ap_fit = None,
              !._peak_fit = None,
              !._noise_pks = None,
              !._noise_ranges = None]

\* _reset_data_results, the data
ClearData(s, clear_freqs, clear_spectrum) ==
    [s EXCEPT !.freqs = IF clear_freqs THEN None ELSE @,
              !.freq_range = IF clear_freqs THEN None ELSE @,
              !.freq_res = IF clear_freqs THEN None ELSE @,
              !.power_spectrum = IF clear_spectrum THEN None ELSE @]

_reset_data_results(s, clear_freqs, clear_spectrum, clear_results) ==
    IF clear_results
    THEN ClearResults(ClearData(s, clear_freqs, clear_spectrum))
    ELSE ClearData(s, clear_freqs, clear_spectrum)

\* __init__: the fields after construction with the arguments a (str2band
\* has accepted a.bands)
Construct(a) ==
    _reset_data_results(
        [bands |-> DropBands(
                       str2band(a.bands, a.max_n_peaks, a.l_freq, a.h_freq,
                                a.n_division).bands,
                       a.l_freq, a.h_freq),
         bandname |-> str2band(a.bands, a.max_n_peaks, a.l_freq, a.h_freq,
                               a.n_division).bandname,
         l_freq |-> a.l_freq,
         h_freq |-> a.h_freq,
         aperiodic_mode |-> a.aperiodic_mode,
         verbose |-> a.verbose,
         log_freqs |-> a.log_freqs,
         n_division |-> a.n_division,
         linenoise |-> a.linenoise,
         prominence |-> a.prominence,
         max_n_peaks |-> a.max_n_peaks,
         iterate_peaks |-> a.iterate_peaks,
         _error_metric |-> "MAPE",
         _debug |-> FALSE,
         _check_freqs |-> TRUE,
         _check_data |-> TRUE,
         _max_harmonic |-> None,
         freqs |-> None, freq_range |-> None, freq_res |-> None,
         power_spectrum |-> None,
         aperiodic_params_ |-> <<>>, gaussian_params_ |-> <<>>,
         peak_params_ |-> <<>>, r_squared_ |-> NanValue, error_ |-> NanValue,
         modeled_spectrum_ |-> None, _spectrum_flat |-> None,
         _spectrum_peak_rm |-> None, _ap_fit |-> None, _peak_fit |-> None,
         _noise_pks |-> None, _noise_ranges |-> None],
        TRUE, TRUE, TRUE)

----------------------------------------------------------------------------
(* Spectrum conditioner *)

\* trim_spectrum: the samples with f_range[0] <= freq <= f_range[1]
trim_spectrum(freqs, power_spectra, f_range) ==
    LET f_mask == {i \in 1..Len(freqs) : freqs[i] >= f_range[1] /\ freqs[i] <= f_range[2]}
    IN [freqs |-> SelectIdx(freqs, f_mask),
        power_spectrum |-> SelectIdx(power_spectra, f_mask)]

\* scipy's find_peaks: the local maxima of y (the middle sample of a flat top)
LocalMaxima(y) ==
    {i \in 2..(Len(y) - 1) :
        \E a \in 2..i : \E b \in i..(Len(y) - 1) :
            /\ \A j \in a..b : y[j] = y[i]
            /\ y[a-1] < y[a]
            /\ y[b+1] < y[b]
            /\ i = (a + b) \div 2}

\* scipy's peak prominence: the height of the peak above the higher of the
\* lowest points on its two sides, each side ending at the next higher sample
Prominence(y, i) ==
    LET lstop == Max({0} \cup {j \in 1..(i-1) : y[j] > y[i]})
        rstop == Min({Len(y) + 1} \cup {j \in (i+1)..Len(y) : y[j] > y[i]})
        left_min == Min({y[j] : j \in (lstop+1)..i})
        right_min == Min({y[j] : j \in i..(rstop-1)})
    IN y[i] - Max({left_min, right_min})

\* np.isclose(freq, harmonic, rtol=5e-2)
IsCloseHarmonic(freq, harmonic) ==
    LET d == IF freq >= harmonic THEN freq - harmonic ELSE harmonic - freq
        h == IF harmonic >= 0 THEN harmonic ELSE -harmonic
    IN 20 * d <= h

\* scipy's peak_widths at half the height of a peak of one sample: half a
\* sample on each side
PeakWidth(psd, pk) == 1

\* the indices of the peaks of y with the prominence asked for that lie at a
\* harmonic, in order
DetectedPeaks(frequencies, y, harmonics, prominence) ==
    SelectIdx([i \in 1..Len(y) |-> i],
              {pk \in LocalMaxima(y) :
                  /\ 10 * Prominence(y, pk) >= prominence
                  /\ \E k \in 1..Len(harmonics) :
                        IsCloseHarmonic(frequencies[pk], harmonics[k])})

\* the frequency of each detected peak and its range [pk - width, pk + width]
PeakRanges(frequencies, psd, pks) ==
    [freq_peaks |-> [k \in 1..Len(pks) |-> frequencies[pks[k]]],
     freq_ranges |-> [k \in 1..Len(pks) |->
                        << frequencies[Max({pks[k] - PeakWidth(psd, pks[k]), 1})],
                           frequencies[Min({pks[k] + PeakWidth(psd, pks[k]),
                                            Len(frequencies)})] >>]]

\* detect_powerline_harmonics_peak_widths, on log10(psd)
detect_powerline_harmonics_peak_widths(frequencies, psd, harmonics, prominence) ==
    PeakRanges(frequencies, psd,
               DetectedPeaks(frequencies, [i \in 1..Len(psd) |-> Log10(psd[i])],
                             harmonics, prominence))

\* fooof.utils.interpolate_spectrum: the power inside interp_range is
\* replaced by values interpolated between the samples that flank the range
interpolate_spectrum(freqs, powers, interp_range) ==
    LET mask == {i \in 1..Len(freqs) :
                    freqs[i] >= interp_range[1] /\ freqs[i] <= interp_range[2]}
        flank == {i \in 1..Len(freqs) : i \notin mask /\
                    (i + 1 \in mask \/ i - 1 \in mask)}
    IN IF mask = {} \/ flank = {} THEN powers
       ELSE [i \in 1..Len(powers) |->
                IF i \in mask THEN Min({powers[j] : j \in flank}) ELSE powers[i]]

InterpolateAll(freqs, powers, ranges) ==
    LET F[k \in 0..Len(ranges)] ==
            IF k = 0 THEN powers
            ELSE interpolate_spectrum(freqs, F[k-1], ranges[k])
    IN F[Len(ranges)]

\* what _prepare_data gives when it raises
Raised(s, exc) ==
    [exc |-> exc, s |-> s, freqs |-> None, power_spectrum |-> None,
     freq_range |-> None, freq_res |-> None]

\* data checks that leave the spacing of the frequencies alone
CheckDataAnySpacing(s, freqs, power) ==
    IF s._check_data /\ \E i \in 1..Len(power) :
                           isinf(Log10(power[i])) \/ isnan(Log10(power[i]))
    THEN Raised(s, "DataError")
    ELSE [exc |-> "none", s |-> s, freqs |-> freqs,
          power_spectrum |-> [i \in 1..Len(power) |-> Log10(power[i])],
          freq_range |-> <<Min(Range(freqs)), Max(Range(freqs))>>,
          freq_res |-> freqs[2] - freqs[1]]

\* _prepare_data, the data checks: power is the linear spectrum after the
\* harmonics have been removed
CheckData(s, freqs, power) ==
    IF s._check_freqs /\ \E i \in 1..(Len(freqs) - 1) :
                            freqs[i+1] - freqs[i] # freqs[2] - freqs[1]
    THEN Raised(s, "DataError")
    ELSE IF s._check_data /\ \E i \in 1..Len(power) :
                                isinf(Log10(power[i])) \/ isnan(Log10(power[i]))
    THEN Raised(s, "DataError")
    ELSE [exc |-> "none", s |-> s, freqs |-> freqs,
          power_spectrum |-> [i \in 1..Len(power) |-> Log10(power[i])],
          freq_range |-> <<Min(Range(freqs)), Max(Range(freqs))>>,
          freq_res |-> freqs[2] - freqs[1]]

\* _prepare_data, the removal of the harmonics det detected
InterpolateDetected(s, freqs, power, det) ==
    CheckData([s EXCEPT !._noise_pks = Some(det.freq_peaks),
                        !._noise_ranges = Some(det.freq_ranges)],
              freqs, InterpolateAll(freqs, power, det.freq_ranges))

\* _prepare_data, the search for max_harmonic harmonics of the line noise
RemoveHarmonics(s, freqs, power, max_harmonic) ==
    IF max_harmonic > 0
    THEN InterpolateDetected(
             [s EXCEPT !._max_harmonic = Some(max_harmonic)], freqs, power,
             detect_powerline_harmonics_peak_widths(
                 freqs, power, [ii \in 1..max_harmonic |-> 600 * ii], s.prominence))
    ELSE CheckData([s EXCEPT !._max_harmonic = Some(max_harmonic)], freqs, power)

\* _prepare_data, from the frequency resolution on: t holds the float arrays
\* without the sample at zero
Condition(s, t) ==
    IF Len(t.freqs) < 2 THEN Raised(s, "IndexError")
    ELSE IF s.verbose > 2 /\ IsNone(s.linenoise) THEN Raised(s, "TypeError")
    ELSE RemoveHarmonics(s, t.freqs, t.power_spectrum,
                         IF IsNone(s.linenoise) THEN 0
                         ELSE Max(Range(t.freqs)) \div Get(s.linenoise))

\* _prepare_data, from the zero-frequency guard on: t holds the float arrays
\* of equal length the range restriction leaves
PrepareTrimmed(s, t) ==
    IF Len(t.freqs) = 0 THEN Raised(s, "IndexError")
    ELSE IF t.freqs[1] = 0 /\ Len(t.freqs) < 2 THEN Raised(s, "IndexError")
    ELSE IF t.freqs[1] = 0
    THEN Condition(s, trim_spectrum(t.freqs, t.power_spectrum,
                                    <<t.freqs[2], Max(Range(t.freqs))>>))
    ELSE Condition(s, t)

\* a validation that looks for complex power before it compares the sizes
_prepare_data_complex_first(s, freqs, power_spectrum, freq_range) ==
    IF freqs.type # "ndarray" \/ power_spectrum.type # "ndarray"
    THEN Raised(s, "DataError")
    ELSE IF freqs.ndim # 1 \/ power_spectrum.ndim # 1
    THEN Raised(s, "DataError")
    ELSE IF power_spectrum.complex
    THEN Raised(s, "DataError")
    ELSE IF Len(freqs.data) # Len(power_spectrum.data)
    THEN Raised(s, "InconsistentDataError")
    ELSE IF ~IsNone(freq_range)
    THEN PrepareTrimmed(s, trim_spectrum(freqs.data, power_spectrum.data,
                                         Get(freq_range)))
    ELSE PrepareTrimmed(s, [freqs |-> freqs.data,
                            power_spectrum |-> power_spectrum.data])

\* _prepare_data: freqs and power_spectrum are the caller's objects
\* [type, ndim, complex, data], freq_range is None or Some(<<low, high>>)
_prepare_data(s, freqs, power_spectrum, freq_range) ==
    IF freqs.type # "ndarray" \/ power_spectrum.type # "ndarray"
    THEN Raised(s, "DataError")
    ELSE IF freqs.ndim # 1 \/ power_spectrum.ndim # 1
    THEN Raised(s, "DataError")
    ELSE IF Len(freqs.data) # Len(power_spectrum.data)
    THEN Raised(s, "InconsistentDataError")
    ELSE IF power_spectrum.complex
    THEN Raised(s, "DataError")
    ELSE IF ~IsNone(freq_range)
    THEN PrepareTrimmed(s, trim_spectrum(freqs.data, power_spectrum.data,
                                         Get(freq_range)))
    ELSE PrepareTrimmed(s, [freqs |-> freqs.data,
                            power_spectrum |-> power_spectrum.data])

\* add_data, the assignment of what _prepare_data returned (r)
StorePrepared(r) ==
    IF r.exc # "none" THEN [exc |-> r.exc, s |-> r.s]
    ELSE [exc |-> "none",
          s |-> [r.s EXCEPT !.freqs = Some(r.freqs),
                            !.power_spectrum = Some(r.power_spectrum),
                            !.freq_range = Some(r.freq_range),
                            !.freq_res = Some(r.freq_res)]]

\* an add_data that clears the object only once the arguments are accepted
add_data_keeps_on_error(s, freqs, power_spectrum, freq_range, clear_results) ==
    IF _prepare_data(s, freqs, power_spectrum, freq_range).exc # "none"
    THEN StorePrepared(_prepare_data(s, freqs, power_spectrum, freq_range))
    ELSE StorePrepared(_prepare_data(
             _reset_data_results(s, has_data(s), has_data(s),
                                 has_model(s) /\ clear_results),
             freqs, power_spectrum, freq_range))

\* add_data: the object after the call and the exception it raised, if any
add_data(s, freqs, power_spectrum, freq_range, clear_results) ==
    StorePrepared(_prepare_data(
        _reset_data_results(s, has_data(s), has_data(s), has_model(s) /\ clear_results),
        freqs, power_spectrum, freq_range))

----------------------------------------------------------------------------
(* Aperiodic fitter and peak fitter *)

\* get_ap_func: the modes that name an aperiodic function
get_ap_func(aperiodic_mode) ==
    IF aperiodic_mode = "fixed" THEN [exc |-> "none", func |-> "expo_nk_function"]
    ELSE IF aperiodic_mode = "knee" THEN [exc |-> "none", func |-> "expo_function"]
    ELSE [exc |-> "ValueError", func |-> ""]

\* an inference that takes every tuple longer than two for a knee fit
infer_ap_func_longer(aperiodic_params) ==
    IF Len(aperiodic_params) = 2 THEN [exc |-> "none", mode |-> "fixed"]
    ELSE IF Len(aperiodic_params) >= 3 THEN [exc |-> "none", mode |-> "knee"]
    ELSE [exc |-> "InconsistentDataError", mode |-> ""]

\* infer_ap_func: the mode a parameter tuple of this length belongs to
infer_ap_func(aperiodic_params) ==
    IF Len(aperiodic_params) = 2 THEN [exc |-> "none", mode |-> "fixed"]
    ELSE IF Len(aperiodic_params) = 3 THEN [exc |-> "none", mode |-> "knee"]
    ELSE [exc |-> "InconsistentDataError", mode |-> ""]

\* the attached spectrum the solvers can evaluate the model on: as many
\* frequencies as power values, the frequencies positive, the power finite
CleanData(s) ==
    /\ ~IsNone(s.freqs)
    /\ ~IsNone(s.power_spectrum)
    /\ Len(Get(s.freqs)) = Len(Get(s.power_spectrum))
    /\ \A i \in 1..Len(Get(s.freqs)) : Get(s.freqs)[i] > 0
    /\ \A i \in 1..Len(Get(s.power_spectrum)) :
          ~isnan(Get(s.power_spectrum)[i]) /\ ~isinf(Get(s.power_spectrum)[i])

\* how a call of scipy's curve_fit ends: with a ValueError when the residuals
\* are not finite at the initial guess; otherwise with parameters ("ok"), or
\* with a RuntimeError when the solver does not converge within maxfev, or
\* with a TypeError when there are fewer points than parameters, which of
\* them being the solver's matter (choice)
CurveFit(s, choice) ==
    IF ~CleanData(s) THEN "ValueError" ELSE choice

\* _simple_ap_fit on the attached frequencies and a spectrum as long as the
\* attached one; stage names the caller ("initial" for the first solve of the
\* robust fit, "simple" for the final fit); solver tells how curve_fit ended
_simple_ap_fit(s, stage, choice) ==
    LET n == IF s.aperiodic_mode = "knee" THEN 3 ELSE 2
        solved == CurveFit(s, choice)
    IN IF Len(Get(s.power_spectrum)) < 2
       THEN [exc |-> "IndexError", params |-> <<>>, solver |-> "not called"]
       ELSE IF IsNone(s.freqs)
       THEN [exc |-> "TypeError", params |-> <<>>, solver |-> "not called"]
       ELSE IF get_ap_func(s.aperiodic_mode).exc # "none"
       THEN [exc |-> get_ap_func(s.aperiodic_mode).exc, params |-> <<>>,
             solver |-> "not called"]
       ELSE IF Len(Get(s.freqs)) # Len(Get(s.power_spectrum))
       THEN [exc |-> "ValueError", params |-> <<>>, solver |-> "ValueError"]
       ELSE IF solved # "ok"
       THEN \* the except clause names FitError, which curve_fit never raises
            [exc |-> solved, params |-> <<>>, solver |-> solved]
       ELSE [exc |-> "none", params |-> [i \in 1..n |-> <<stage>>],
             solver |-> "ok"]

\* _robust_ap_fit, the second solve: first is what the initial simple fit
\* gave, solved how the second call of curve_fit ended
RobustRefit(first, solved) ==
    IF first.exc # "none"
    THEN [exc |-> first.exc, params |-> <<>>, initial |-> first.solver,
          solver |-> "not called"]
    ELSE IF infer_ap_func(first.params).exc # "none"
    THEN [exc |-> infer_ap_func(first.params).exc, params |-> <<>>,
          initial |-> first.solver, solver |-> "not called"]
    ELSE IF solved \in {"RuntimeError", "TypeError"}
    THEN [exc |-> "FitError", params |-> <<>>, initial |-> first.solver,
          solver |-> solved]
    ELSE IF solved # "ok"
    THEN [exc |-> solved, params |-> <<>>, initial |-> first.solver,
          solver |-> solved]
    ELSE [exc |-> "none",
          params |-> [i \in 1..Len(first.params) |-> <<"robust">>],
          initial |-> first.solver, solver |-> "ok"]

\* _robust_ap_fit on the attached spectrum; choice1 and choice2 tell how its
\* two calls of curve_fit end
_robust_ap_fit(s, choice1, choice2) ==
    RobustRefit(_simple_ap_fit(s, "initial", choice1),
                IF choice2 = "TypeError" /\ s.aperiodic_mode # "fixed"
                THEN "ok" ELSE CurveFit(s, choice2))

\* the samples constrained_gaussian_fit finds in a band
InBand(f, band, log_freqs) ==
    IF log_freqs
    THEN f > 0 /\ band[2] > 0 /\ (band[1] <= 0 \/ f > band[1]) /\ f <= band[2]
         /\ band[1] >= 0
    ELSE f > band[1] /\ f <= band[2]

\* constrained_gaussian_fit on the attached frequencies
constrained_gaussian_fit(s, choice) ==
    LET freqs == Get(s.freqs)
        empty == \E b \in 1..Len(s.bands) :
                    ~\E i \in 1..Len(freqs) : InBand(freqs[i], s.bands[b], s.log_freqs)
        solved == IF Len(s.bands) = 0 THEN "RuntimeError"
                  ELSE IF choice = "TypeError" THEN "ok" ELSE CurveFit(s, choice)
    IN IF empty
       THEN \* np.max of the empty selection
            [exc |-> "ValueError", params |-> <<>>, solver |-> "not called"]
       ELSE IF solved # "ok" THEN [exc |-> solved, params |-> <<>>, solver |-> solved]
       ELSE [exc |-> "none", params |-> [i \in 1..(3 * Len(s.bands)) |-> <<"gauss">>],
             solver |-> "ok"]

\* _create_peak_params: one row [CF, PW, BW] for each gaussian
_create_peak_params(s, gaus_params) ==
    [ii \in 1..(Len(gaus_params) \div 3) |->
        <<"cf", "pw", IF s.log_freqs THEN "bw_log" ELSE "bw">>]

\* an error step that knows the three metrics its docstring lists
_calc_error_documented(s) ==
    IF s._error_metric \in {"MAE", "MSE", "RMSE"}
    THEN [exc |-> "none", error_ |-> <<s._error_metric>>]
    ELSE [exc |-> "ValueError", error_ |-> s.error_]

\* _calc_error: the metrics that are implemented
_calc_error(s) ==
    IF s._error_metric \in {"MAE", "MSE", "RMSE", "MAPE"}
    THEN [exc |-> "none", error_ |-> <<s._error_metric>>]
    ELSE [exc |-> "ValueError", error_ |-> s.error_]

----------------------------------------------------------------------------
(* Fit orchestrator *)

\* how the four solves of a fit ended, before any of them has run
NoSolves ==
    [initial |-> "not called", robust |-> "not called", peaks |-> "not called",
     simple |-> "not called"]

\* how a step of fit that ended with exc left the object and the solves
Ended(exc, s, solves) == [exc |-> exc, s |-> s, solves |-> solves]

\* fit, from the full model on: s holds the final aperiodic parameters and
\* the peak curve; the aperiodic curve is generated from the parameters
\* held, the model is the sum of the peak curve and the aperiodic curve
FitModel(s, solves) ==
    Ended(_calc_error(s).exc,
          [s EXCEPT !._ap_fit = Some(<<"ap_fit", s.aperiodic_params_[1][1]>>),
                    !._spectrum_flat = Some(<<"flat", s.aperiodic_params_[1][1]>>),
                    !.modeled_spectrum_ =
                        Some(<<"model", Get(s._peak_fit),
                               <<"ap_fit", s.aperiodic_params_[1][1]>> >>),
                    !.peak_params_ = _create_peak_params(s, s.gaussian_params_),
                    !.r_squared_ = <<"r_squared">>,
                    !.error_ = _calc_error(s).error_],
          solves)

\* a final aperiodic fit whose parameters are dropped for those of the
\* robust fit
FitFinalKeepRobust(s, final, solves) ==
    IF final.exc # "none"
    THEN Ended(final.exc, s, [solves EXCEPT !.simple = final.solver])
    ELSE FitModel(s, [solves EXCEPT !.simple = final.solver])

\* fit, the final aperiodic fit: final is what _simple_ap_fit gave on the
\* peak-removed spectrum
FitFinal(s, final, solves) ==
    IF final.exc # "none"
    THEN Ended(final.exc, s, [solves EXCEPT !.simple = final.solver])
    ELSE IF infer_ap_func(final.params).exc # "none"
    THEN Ended(infer_ap_func(final.params).exc,
               [s EXCEPT !.aperiodic_params_ = final.params],
               [solves EXCEPT !.simple = final.solver])
    ELSE FitModel([s EXCEPT !.aperiodic_params_ = final.params],
                  [solves EXCEPT !.simple = final.solver])

\* fit, the peak removal: s holds the peak curve, if one was computed
FitPeakRemoved(s, o, solves) ==
    FitFinal(s, _simple_ap_fit(s, "simple", o.simple), solves)

\* the steps of fit after the peak fit: s holds gaussian_params_
FitAfterPeaks(s, o, solves) ==
    IF s.iterate_peaks /\ IsNone(s._peak_fit)
    THEN \* no peak curve is computed, and the spectrum minus None is a TypeError
         Ended("TypeError", s, solves)
    ELSE FitPeakRemoved(
             [s EXCEPT !._peak_fit =
                           IF s.iterate_peaks THEN @
                           ELSE Some(<<"peak_fit",
                                       IF s.log_freqs THEN "log" ELSE "linear">>),
                       !._spectrum_peak_rm = Some(<<"peak_rm">>)],
             o, solves)

\* fit, the peak fit: gauss is what constrained_gaussian_fit gave on the
\* flattened spectrum
FitPeaks(s, gauss, o, solves) ==
    IF gauss.exc # "none"
    THEN Ended(gauss.exc, s, [solves EXCEPT !.peaks = gauss.solver])
    ELSE FitAfterPeaks([s EXCEPT !.gaussian_params_ = gauss.params], o,
                       [solves EXCEPT !.peaks = gauss.solver])

\* fit, the flattening: s holds the robust aperiodic parameters
FitFlattened(s, o, solves) ==
    FitPeaks(s, constrained_gaussian_fit(s, o.peaks), o, solves)

\* fit, the first aperiodic fit: robust is what _robust_ap_fit gave
FitRobust(s, robust, o) ==
    IF robust.exc # "none"
    THEN Ended(robust.exc, s,
               [NoSolves EXCEPT !.initial = robust.initial, !.robust = robust.solver])
    ELSE IF infer_ap_func(robust.params).exc # "none"
    THEN Ended(infer_ap_func(robust.params).exc,
               [s EXCEPT !.aperiodic_params_ = robust.params],
               [NoSolves EXCEPT !.initial = robust.initial, !.robust = robust.solver])
    ELSE FitFlattened([s EXCEPT !.aperiodic_params_ = robust.params,
                                !._ap_fit = Some(<<"ap_fit", "robust">>),
                                !._spectrum_flat = Some(<<"flat", "robust">>)],
                      o,
                      [NoSolves EXCEPT !.initial = robust.initial,
                                       !.robust = robust.solver])

\* the body of the try statement of fit
FitBody(s, o) ==
    IF ~s._check_data /\ \E i \in 1..Len(Get(s.power_spectrum)) :
            isinf(Get(s.power_spectrum)[i]) \/ isnan(Get(s.power_spectrum)[i])
    THEN Ended("FitError", s, NoSolves)
    ELSE FitRobust(s, _robust_ap_fit(s, o.initial, o.robust), o)

\* an except clause that re-raises unless the object is in debug mode
FitExceptInverted(body, debug) ==
    IF body.exc # "FitError"
    THEN [exc |-> body.exc, s |-> body.s, raised |-> FALSE, solves |-> body.solves]
    ELSE IF ~debug
    THEN [exc |-> "FitError", s |-> body.s, raised |-> TRUE, solves |-> body.solves]
    ELSE [exc |-> "none", s |-> _reset_data_results(body.s, FALSE, FALSE, TRUE),
          raised |-> TRUE, solves |-> body.solves]

\* an except clause that clears the data together with the results
FitExceptClearsData(body, debug) ==
    IF body.exc # "FitError"
    THEN [exc |-> body.exc, s |-> body.s, raised |-> FALSE, solves |-> body.solves]
    ELSE IF debug
    THEN [exc |-> "FitError", s |-> body.s, raised |-> TRUE, solves |-> body.solves]
    ELSE [exc |-> "none", s |-> _reset_data_results(body.s, TRUE, TRUE, TRUE),
          raised |-> TRUE, solves |-> body.solves]

\* the except clause of fit: body is how the try statement ended, raised
\* tells whether it ended with a FitError
FitExcept(body, debug) ==
    IF body.exc # "FitError"
    THEN [exc |-> body.exc, s |-> body.s, raised |-> FALSE, solves |-> body.solves]
    ELSE IF debug
    THEN [exc |-> "FitError", s |-> body.s, raised |-> TRUE, solves |-> body.solves]
    ELSE [exc |-> "none", s |-> _reset_data_results(body.s, FALSE, FALSE, TRUE),
          raised |-> TRUE, solves |-> body.solves]

\* the try statement of fit with its except clause
FitTry(s, o) == FitExcept(FitBody(s, o), s._debug)

\* fit, from the check for data on: added is how attaching the arguments ended
FitAdded(added, o) ==
    IF added.exc # "none"
    THEN [exc |-> added.exc, s |-> added.s, raised |-> FALSE, solves |-> NoSolves]
    ELSE IF ~has_data(added.s)
    THEN [exc |-> "NoDataError", s |-> added.s, raised |-> FALSE, solves |-> NoSolves]
    ELSE FitTry(added.s, o)

\* fit, the attaching of the arguments: s holds the prominence of this call
FitAttach(s, freqs, power_spectrum, freq_range, o) ==
    IF freqs.type # "None" /\ power_spectrum.type # "None"
    THEN FitAdded(add_data(s, freqs, power_spectrum, freq_range, TRUE), o)
    ELSE IF power_spectrum.type = "ndarray"
    THEN FitAdded([exc |-> "none",
                   s |-> [s EXCEPT !.power_spectrum = Some(power_spectrum.data)]], o)
    ELSE FitAdded([exc |-> "none", s |-> s], o)

\* fit: freqs and power_spectrum are the caller's objects (type "None" when
\* left out), o the way the solvers end
fit(s, freqs, power_spectrum, freq_range, prominence, o) ==
    IF s.verbose > 1 /\ (freqs.type # "ndarray" \/ power_spectrum.type # "ndarray")
    THEN \* the status line reads the shape of both arguments
         [exc |-> "AttributeError", s |-> [s EXCEPT !.prominence = prominence],
          raised |-> FALSE, solves |-> NoSolves]
    ELSE FitAttach([s EXCEPT !.prominence = prominence], freqs, power_spectrum,
                   freq_range, o)

\* a record whose noise slots are filled in the order of the detections
get_params_out_in_order(s) ==
    IF ~has_model(s) THEN [exc |-> "NoModelError", val |-> None]
    ELSE IF IsNone(s._max_harmonic) THEN [exc |-> "AttributeError", val |-> None]
    ELSE
    LET n == IF Get(s._max_harmonic) > 0 THEN Get(s._max_harmonic) ELSE 0
        pks == IF IsNone(s._noise_pks) THEN <<>> ELSE Get(s._noise_pks)
    IN IF Len(pks) > n
       THEN [exc |-> "IndexError", val |-> None]
       ELSE [exc |-> "none",
             val |-> Some([aperiodic_params |-> s.aperiodic_params_,
                           gaussian_params |-> s.gaussian_params_,
                           noise_pks |-> [ii \in 1..n |->
                               IF ii > Len(pks) THEN None ELSE Some(pks[ii])],
                           noise_wids |-> [ii \in 1..n |->
                               IF ii > Len(pks) THEN None
                               ELSE Some((Get(s._noise_ranges)[ii][2]
                                          - Get(s._noise_ranges)[ii][1]) \div 2)],
                           peak_params |-> s.peak_params_,
                           r_squared |-> s.r_squared_,
                           error |-> s.error_])]

\* numpy's flatten of an array of rows of three
Flatten(rows) ==
    [i \in 1..(3 * Len(rows)) |-> rows[(i-1) \div 3 + 1][((i-1) % 3) + 1]]

\* get_params_out: the record, or the exception raised
get_params_out(s) ==
    IF ~has_model(s) THEN [exc |-> "NoModelError", val |-> None]
    ELSE IF IsNone(s._max_harmonic) THEN [exc |-> "AttributeError", val |-> None]
    ELSE
    LET n == IF Get(s._max_harmonic) > 0 THEN Get(s._max_harmonic) ELSE 0
        guess_noise_pks == IF IsNone(s.linenoise) THEN <<>>
                           ELSE [ii \in 1..n |-> Get(s.linenoise) * ii]
        pks == IF IsNone(s._noise_pks) THEN <<>> ELSE Get(s._noise_pks)
    IN IF Len(pks) > 0 /\ Len(guess_noise_pks) = 0
       THEN [exc |-> "ValueError", val |-> None]
       ELSE
       LET Dist(k, ii) == IF pks[k] >= guess_noise_pks[ii]
                          THEN pks[k] - guess_noise_pks[ii]
                          ELSE guess_noise_pks[ii] - pks[k]
           \* np.argmin: the first of the nearest expected harmonics
           Ndx(k) == Min({ii \in 1..n : \A jj \in 1..n : Dist(k, ii) <= Dist(k, jj)})
           \* a later detection overwrites an earlier one in the same slot
           Last(ii) == Max({0} \cup {k \in 1..Len(pks) : Ndx(k) = ii})
       IN [exc |-> "none",
           val |-> Some([aperiodic_params |-> s.aperiodic_params_,
                         gaussian_params |-> s.gaussian_params_,
                         noise_pks |-> [ii \in 1..n |->
                             IF Last(ii) = 0 THEN None ELSE Some(pks[Last(ii)])],
                         noise_wids |-> [ii \in 1..n |->
                             IF Last(ii) = 0 THEN None
                             ELSE Some((Get(s._noise_ranges)[Last(ii)][2]
                                        - Get(s._noise_ranges)[Last(ii)][1]) \div 2)],
                         peak_params |-> Flatten(s.peak_params_),
                         r_squared |-> s.r_squared_,
                         error |-> s.error_])]

\* np.empty(n): n floats that are not initialized, each of any value
Empty(n) == [i \in 1..n |-> <<"empty">>]

\* get_nan_params, the record for n_bands bands
NanRecord(a, n_bands) ==
    IF a.aperiodic_mode \notin {"knee", "fixed"}
    THEN [exc |-> "ValueError", val |-> None]
    ELSE [exc |-> "none",
          val |-> Some([aperiodic_params |->
                            IF a.aperiodic_mode = "knee" THEN NanParams("knee")
                            ELSE Empty(2),
                        gaussian_params |-> Empty(n_bands * 3),
                        noise_pks |-> Empty(a.h_freq \div 600),
                        noise_wids |-> Empty(a.h_freq \div 600),
                        peak_params |-> Empty(n_bands * 3),
                        r_squared |-> NanValue,
                        error |-> NanValue])]

\* get_nan_params, called with the arguments a of a construction
get_nan_params(a) ==
    IF str2band(a.bands, a.max_n_peaks, a.l_freq, a.h_freq, a.n_division).exc # "none"
    THEN [exc |-> "ValueError", val |-> None]
    ELSE NanRecord(a, Len(str2band(a.bands, a.max_n_peaks, a.l_freq, a.h_freq,
                                   a.n_division).bands))

----------------------------------------------------------------------------
(* The callers' inputs *)

\* the band argument of the constructor
Named(name) == [kind |-> "str", name |-> name, list |-> <<>>]
Custom(list) == [kind |-> "list", name |-> "", list |-> list]

\* a construction that keeps three of the standard bands, each of which
\* holds a sample of the spectra below
BaseArgs ==
    [bands |-> Named("standard"), max_n_peaks |-> 6, log_freqs |-> TRUE,
     n_division |-> 1, l_freq |-> 125, h_freq |-> 1500, prominence |-> 5,
     linenoise |-> Some(600), aperiodic_mode |-> "knee", iterate_peaks |-> FALSE,
     verbose |-> 1]

\* the constructions of the model: BaseArgs, and BaseArgs with one argument
\* (or the cutoffs, or the bands and what they need) changed
CtorArgs ==
    { BaseArgs,
      [BaseArgs EXCEPT !.l_freq = 3, !.h_freq = 2500],
      [BaseArgs EXCEPT !.l_freq = 300, !.h_freq = 700],
      [BaseArgs EXCEPT !.bands = Named("standard_nohigh")],
      [BaseArgs EXCEPT !.bands = Custom(<< <<0, 400>>, <<500, 1000>> >>),
                       !.log_freqs = FALSE, !.l_freq = 3, !.h_freq = 2500],
      [BaseArgs EXCEPT !.bands = Named("linear"), !.max_n_peaks = 2,
                       !.l_freq = 0, !.h_freq = 1200],
      [BaseArgs EXCEPT !.aperiodic_mode = "fixed"],
      [BaseArgs EXCEPT !.aperiodic_mode = "exponential"],
      [BaseArgs EXCEPT !.prominence = 8],
      [BaseArgs EXCEPT !.linenoise = None],
      [BaseArgs EXCEPT !.iterate_peaks = TRUE],
      [BaseArgs EXCEPT !.verbose = 2] }

\* a numpy array of one dimension, and the other objects a caller may pass
Array(data) == [type |-> "ndarray", ndim |-> 1, complex |-> FALSE, data |-> data]
NoArg == [type |-> "None", ndim |-> 0, complex |-> FALSE, data |-> <<>>]
ListOf(data) == [type |-> "list", ndim |-> 1, complex |-> FALSE, data |-> data]
Array2d(data) == [type |-> "ndarray", ndim |-> 2, complex |-> FALSE, data |-> data]
ComplexArray(data) == [type |-> "ndarray", ndim |-> 1, complex |-> TRUE, data |-> data]

\* frequency arrays: empty, too short once the zero is dropped, evenly spaced
\* from a positive, a zero and a negative first sample, constant, unevenly
\* spaced, below the first harmonic
FreqData ==
    {f \in { <<>>, <<0, 300>>, <<300, 600, 900>>, <<0, 300, 600, 900>>,
             <<-300, 0, 300>>, <<0, 0, 0>>, <<300, 600, 1200>>, <<150, 300, 450>>,
             <<0, 300, 600, 900, 1200>> } : Len(f) <= MaxLen}

\* linear power arrays of n samples: flat, or with one sample that differs
Flat(n, v) == [i \in 1..n |-> v]
Spike(n, pos, v) == [i \in 1..n |-> IF i = pos THEN v ELSE 10]

\* the pairs of arguments of add_data: each frequency array with a flat
\* spectrum, the ramps from 0 and from 30 Hz with a peak at 60 Hz, with a
\* spectrum of log-power 0, with a zero, with one sample too many, and
\* arguments of the wrong type, dimension or kind
DataArgs ==
    {<<Array(f), Array(Flat(Len(f), 10))>> : f \in FreqData}
    \cup {<<Array(f), Array(Spike(Len(f), Len(f) - 1, 100))>> :
             f \in {g \in FreqData : Len(g) >= 3 /\ g[Len(g) - 1] = 600}}
    \cup { <<Array(<<300, 600, 900>>), Array(Flat(3, 1))>>,
           <<Array(<<300, 600, 900>>), Array(Spike(3, 3, 0))>>,
           <<Array(<<300, 600, 900>>), Array(Flat(4, 10))>>,
           <<ListOf(<<300, 600, 900>>), Array(Flat(3, 10))>>,
           <<Array(<<300, 600, 900>>), ListOf(Flat(3, 10))>>,
           <<Array2d(<<300, 600, 900>>), Array(Flat(3, 10))>>,
           <<Array(<<300, 600, 900>>), ComplexArray(Flat(3, 10))>>,
           <<Array(<<300, 600>>), ComplexArray(Flat(3, 10))>> }

\* the arguments of add_data: each pair without a frequency range, and the
\* pairs that hold a frequency of zero or above 90 Hz restricted to 0..90 Hz
AddDataArgs ==
    {<<d[1], d[2], None>> : d \in DataArgs}
    \cup {<<d[1], d[2], Some(<<0, 900>>)>> :
             d \in {e \in DataArgs :
                       /\ e[1].type = "ndarray" /\ e[1].ndim = 1
                       /\ \E i \in 1..Len(e[1].data) :
                             e[1].data[i] = 0 \/ e[1].data[i] > 900}}

\* the pairs fit is called with: the ramp from 30 Hz with a peak at 60 Hz,
\* flat, and of log-power 0; the ramps from 0 and from -30 Hz; a list; one
\* power sample too many; unevenly spaced frequencies; the ramp from 60 Hz
\* with a peak at 120 Hz
FitDataArgs ==
    { <<Array(<<300, 600, 900>>), Array(Spike(3, 2, 100))>>,
      <<Array(<<300, 600, 900>>), Array(Flat(3, 10))>>,
      <<Array(<<300, 600, 900>>), Array(Flat(3, 1))>>,
      <<Array(<<0, 300, 600, 900>>), Array(Flat(4, 10))>>,
      <<Array(<<-300, 0, 300>>), Array(Flat(3, 10))>>,
      <<ListOf(<<300, 600, 900>>), Array(Flat(3, 10))>>,
      <<Array(<<300, 600, 900>>), Array(Flat(4, 10))>>,
      <<Array(<<300, 600, 1200>>), Array(Flat(3, 10))>>,
      <<Array(<<600, 900, 1200, 1500>>), Array(Spike(4, 3, 100))>> }

\* the log-power arrays a caller hands to fit without frequencies
PowerOnlyArgs == {Array(Flat(3, 0)), Array(<<1, 2, 1>>), Array(<<1, NaN>>)}

\* the constructions whose run modes the caller changes
ModeArgs == {BaseArgs}

\* the ways the solvers of one fit may end: all converge, or one of them is
\* the first to fail
SolverChoices ==
    {[initial |-> "ok", robust |-> "ok", peaks |-> "ok", simple |-> "ok"]}
    \cup {[initial |-> e, robust |-> "ok", peaks |-> "ok", simple |-> "ok"] :
             e \in {"RuntimeError"}}
    \cup {[initial |-> "ok", robust |-> e, peaks |-> "ok", simple |-> "ok"] :
             e \in {"RuntimeError", "TypeError"}}
    \cup {[initial |-> "ok", robust |-> "ok", peaks |-> e, simple |-> "ok"] :
             e \in {"RuntimeError"}}
    \cup {[initial |-> "ok", robust |-> "ok", peaks |-> "ok", simple |-> e] :
             e \in {"RuntimeError"}}

----------------------------------------------------------------------------
(* The state machine *)

NotCalled == [called |-> FALSE, exc |-> "none", val |-> None]

\* np.diff(freqs) has a spacing that differs from the first one
Uneven(freqs) ==
    \E i \in 1..(Len(freqs) - 1) : freqs[i+1] - freqs[i] # freqs[2] - freqs[1]

\* the frequencies the zero-frequency guard of _prepare_data leaves of t
DropZero(t) ==
    IF Len(t) >= 2 /\ t[1] = 0
    THEN trim_spectrum(t, t, <<t[2], Max(Range(t))>>).freqs
    ELSE t

\* the frequencies _prepare_data computes the resolution of: those the range
\* restriction and the zero-frequency guard leave
KeptFreqs(freqs, freq_range) ==
    DropZero(IF IsNone(freq_range) THEN freqs
             ELSE trim_spectrum(freqs, freqs, Get(freq_range)).freqs)

\* what the caller passed: the kind of the two arguments, whether they are
\* equally long, and whether the frequencies passed and those kept are
\* unevenly spaced
Given(freqs, power_spectrum, freq_range) ==
    [ftype |-> freqs.type, fndim |-> freqs.ndim,
     ptype |-> power_spectrum.type, pndim |-> power_spectrum.ndim,
     pcomplex |-> power_spectrum.complex,
     same_len |-> Len(freqs.data) = Len(power_spectrum.data),
     ranged |-> ~IsNone(freq_range),
     uneven |-> Uneven(freqs.data),
     kept_uneven |-> Uneven(KeptFreqs(freqs.data, freq_range))]

\* what call records of a call of op on the object s that ended as r
Called(op, s, r, freqs, power_spectrum, freq_range, clear_results) ==
    [op |-> op, exc |-> r.exc, raised |-> r.raised, solves |-> r.solves,
     had_data |-> has_data(s), had_model |-> has_model(s),
     given |-> Given(freqs, power_spectrum, freq_range),
     clear_results |-> clear_results]

\* the spectrum the parameters held after a call were fitted on: s and on are
\* the object and record_on before the call, r is the way the call ended
RecordOn(s, on, r, keep) ==
    IF ~has_model(r.s) THEN "none"
    ELSE IF r.solves.robust = "ok" THEN "current"
    ELSE IF <<r.s.freqs, r.s.power_spectrum>> = <<s.freqs, s.power_spectrum>> THEN on
    ELSE IF keep /\ on \in {"current", "kept"} THEN "kept"
    ELSE "replaced"

InitOver(Args) ==
    /\ \E a \in Args :
          /\ str2band(a.bands, a.max_n_peaks, a.l_freq, a.h_freq, a.n_division).exc = "none"
          /\ ctor = a
          /\ self = Construct(a)
    /\ call = [op |-> "__init__", exc |-> "none", raised |-> FALSE, solves |-> NoSolves,
               had_data |-> FALSE, had_model |-> FALSE,
               given |-> Given(NoArg, NoArg, None), clear_results |-> TRUE]
    /\ out = NotCalled
    /\ fit_called = FALSE
    /\ ncalls = 0
    /\ record_on = "none"

Init == InitOver(CtorArgs)

\* the caller sets one run mode before using the object: obj._debug,
\* obj._check_freqs or obj._check_data
SetRunMode ==
    \E flag \in {"_debug", "_check_freqs", "_check_data"} :
        /\ call.op = "__init__"
        /\ ctor \in ModeArgs
        /\ ~self._debug /\ self._check_freqs /\ self._check_data
        /\ self' = [self EXCEPT ![flag] = ~self[flag]]
        /\ UNCHANGED <<ctor, call, out, fit_called, ncalls, record_on>>

\* a call op(freqs, power_spectrum, freq_range, clear_results) that ended as
\* r is recorded, and the record get_params_out gave is forgotten
Return(op, r, freqs, power_spectrum, freq_range, clear_results) ==
    /\ ncalls' = ncalls + 1
    /\ self' = r.s
    /\ call' = Called(op, self, r, freqs, power_spectrum, freq_range, clear_results)
    /\ out' = NotCalled
    /\ fit_called' = (fit_called \/ op = "fit")
    /\ record_on' = RecordOn(self, record_on, r, op = "add_data" /\ ~clear_results)
    /\ UNCHANGED ctor

\* how a call of add_data that ended as r is recorded: no solver has run
NoFit(r) == [exc |-> r.exc, s |-> r.s, raised |-> FALSE, solves |-> NoSolves]

\* obj.add_data(freqs, power_spectrum, freq_range, clear_results)
AddData ==
    /\ ncalls < MaxCalls
    /\ \E a \in AddDataArgs, clear_results \in BOOLEAN :
          Return("add_data", NoFit(add_data(self, a[1], a[2], a[3], clear_results)),
                 a[1], a[2], a[3], clear_results)

\* obj.fit(), on the data attached
FitAttached ==
    /\ ncalls < MaxCalls
    /\ \E c \in SolverChoices :
          Return("fit", fit(self, NoArg, NoArg, None, 5, c), NoArg, NoArg, None, TRUE)

\* obj.fit(freqs, power_spectrum)
FitData ==
    /\ ncalls < MaxCalls
    /\ \E d \in FitDataArgs, c \in SolverChoices :
          Return("fit", fit(self, d[1], d[2], None, 5, c), d[1], d[2], None, TRUE)

\* obj.fit(power_spectrum=p), on the frequencies attached
FitPower ==
    /\ ncalls < MaxCalls
    /\ \E p \in PowerOnlyArgs, c \in SolverChoices :
          Return("fit", fit(self, NoArg, p, None, 5, c), NoArg, p, None, TRUE)

\* what the caller gets from get_params_out
Got(r) == [called |-> TRUE, exc |-> r.exc, val |-> r.val]

\* obj.get_params_out()
GetParamsOut ==
    /\ ~out.called
    /\ out' = Got(get_params_out(self))
    /\ UNCHANGED <<self, ctor, call, fit_called, ncalls, record_on>>

Next ==
    \/ SetRunMode
    \/ AddData
    \/ FitAttached
    \/ FitData
    \/ FitPower
    \/ GetParamsOut

Spec == Init /\ [][Next]_vars

----------------------------------------------------------------------------
(* The object with its error metric configured *)

\* the names the caller sets obj._error_metric to: the implemented metrics
\* other than the default, and a name that is not implemented
ErrorMetrics == {"MAE", "MSE", "RMSE", "R2"}

\* the caller sets obj._error_metric before using the object
SetErrorMetric ==
    \E metric \in ErrorMetrics :
        /\ call.op = "__init__"
        /\ self._error_metric = "MAPE"
        /\ self._check_freqs /\ self._check_data
        /\ self' = [self EXCEPT !._error_metric = metric]
        /\ UNCHANGED <<ctor, call, out, fit_called, ncalls, record_on>>

\* the object is configured, then fitted: on data passed to fit, and again
\* on the data it holds
MetricNext ==
    \/ SetErrorMetric
    \/ SetRunMode
    \/ FitData
    \/ FitAttached
    \/ GetParamsOut

MetricSpec == InitOver(ModeArgs) /\ [][MetricNext]_vars

----------------------------------------------------------------------------
(* The functions of the module, called on their own *)

\* the longest parameter tuple infer_ap_func is called with
MaxParams == 5

\* the largest max_n_peaks and n_division str2band is called with
MaxPeaks == 63
MaxDivision == 3

\* the names the constructor documents as the options of bands
DocumentedBands ==
    {"standard", "log", "linear", "log10", "mine", "mine_nohigh", "anton", "buzsaki"}

\* the band arguments of str2band: the documented names, the other names of
\* its branches, a name of neither, lists of pairs, and objects that are
\* neither a string nor a list
BandArgs ==
    {Named(name) : name \in DocumentedBands \cup {"standard_nohigh", "theta"}}
    \cup {Custom(<< <<0, 400>>, <<500, 1000>> >>), Custom(<< <<40, 80>> >>)}
    \cup {[kind |-> "tuple", name |-> "", list |-> << <<40, 80>> >>],
          [kind |-> "None", name |-> "", list |-> <<>>]}

\* the arguments of str2band: the default count, small ones, and the ones
\* next to the cap; cutoffs from 0.3 Hz, from 0 and the ones of BaseArgs
Str2BandArgs ==
    [bands : BandArgs,
     max_n_peaks : {1, 2, 6, MaxPeaks - 1, MaxPeaks},
     range : {<<3, 2500>>, <<0, 1200>>, <<125, 1500>>},
     n_division : 1..MaxDivision]

\* the tuples of at most n parameter values
Tuples(n) ==
    UNION {[1..k -> {<<"nan">>, <<"simple">>, <<"robust">>}] : k \in 0..n}

\* no object is constructed and no function has been called; each behaviour
\* is one call of one function
FnInit ==
    /\ self = None
    /\ ctor = None
    /\ call = [op |-> "none", args |-> None]
    /\ out = NotCalled
    /\ fit_called = FALSE
    /\ ncalls = 0
    /\ record_on = "none"

\* a call op(args) that ended as r
FnReturn(op, args, r) ==
    /\ call' = [op |-> op, args |-> args]
    /\ out' = Got(r)
    /\ UNCHANGED <<self, ctor, fit_called, ncalls, record_on>>

\* infer_ap_func(aperiodic_params)
InferApFunc ==
    /\ call.op = "none"
    /\ \E aperiodic_params \in Tuples(MaxParams) :
          FnReturn("infer_ap_func", aperiodic_params,
                   [exc |-> infer_ap_func(aperiodic_params).exc,
                    val |-> infer_ap_func(aperiodic_params).mode])

\* what the caller of str2band gets
BandsOut(r) ==
    [exc |-> r.exc,
     val |-> IF r.exc = "none" THEN Some([bands |-> r.bands, bandname |-> r.bandname])
             ELSE None]

\* str2band(bands, max_n_peaks, l_freq, h_freq, n_division)
Str2Band ==
    /\ call.op = "none"
    /\ \E a \in Str2BandArgs :
          FnReturn("str2band", a,
                   BandsOut(str2band(a.bands, a.max_n_peaks, a.range[1], a.range[2],
                                     a.n_division)))

\* get_nan_params(bands, max_n_peaks, ..., aperiodic_mode, ..., l_freq,
\* h_freq, n_division, ...)
GetNanParams ==
    /\ call.op = "none"
    /\ \E a \in CtorArgs : FnReturn("get_nan_params", a, get_nan_params(a))

FnNext ==
    \/ InferApFunc
    \/ Str2Band
    \/ GetNanParams

FnSpec == FnInit /\ [][FnNext]_vars

----------------------------------------------------------------------------
(* The object with its line-noise frequency configured *)

\* the constructions with a line noise of 50, of 60 and of 120 Hz
LineArgs == {[BaseArgs EXCEPT !.linenoise = Some(f)] : f \in {500, 600, 1200}}

\* the object is given data and fitted
LineNext ==
    \/ AddData
    \/ FitAttached
    \/ FitData
    \/ GetParamsOut

LineSpec == InitOver(LineArgs) /\ [][LineNext]_vars

----------------------------------------------------------------------------
(* The fits of the channels of one file *)

\* the most channels of a file
MaxChannels == 2

\* the configurations _parallel_fit_psds is called with
BatchArgs == {BaseArgs, [BaseArgs EXCEPT !.aperiodic_mode = "fixed"]}

\* the frequencies of the file, and what a channel holds: a spectrum that is
\* fitted, one whose robust fit does not converge, and one with a zero that
\* add_data rejects
ChannelFreqs == <<300, 600, 900>>
ChannelCases ==
    { [power |-> Spike(3, 2, 100),
       solvers |-> [initial |-> "ok", robust |-> "ok", peaks |-> "ok", simple |-> "ok"]],
      [power |-> Flat(3, 10),
       solvers |-> [initial |-> "ok", robust |-> "RuntimeError", peaks |-> "ok",
                    simple |-> "ok"]],
      [power |-> Spike(3, 3, 0),
       solvers |-> [initial |-> "ok", robust |-> "ok", peaks |-> "ok", simple |-> "ok"]] }

\* what get_params_out gives after a fit that ended as r, or what fit raised
RecordOf(r) ==
    IF r.exc # "none" THEN [exc |-> r.exc, val |-> None]
    ELSE get_params_out(r.s)

\* _fit_open_parallel and _fit_closed_parallel: a new object is fitted on
\* the spectrum of the channel and gives its record, or the call raises
_fit_open_parallel(a, case) ==
    RecordOf(fit(Construct(a), Array(ChannelFreqs), Array(case.power), None, 5,
                 case.solvers))

\* _isolate_fit_joint_parallel, one of its try statements: whatever the fit
\* or get_params_out raises is replaced by the record of get_nan_params
Isolated(a, fitted) ==
    IF fitted.exc # "none" THEN get_nan_params(a) ELSE fitted

\* _isolate_fit_joint_parallel: the records of the closed and of the open
\* spectrum of a channel, or what get_nan_params raised
Joint(open_params, closed_params) ==
    IF closed_params.exc # "none"
    THEN [exc |-> closed_params.exc, open |-> None, closed |-> None]
    ELSE IF open_params.exc # "none"
    THEN [exc |-> open_params.exc, open |-> None, closed |-> None]
    ELSE [exc |-> "none", open |-> open_params.val, closed |-> closed_params.val]

_isolate_fit_joint_parallel(a, open_case, closed_case) ==
    Joint(Isolated(a, _fit_open_parallel(a, open_case)),
          Isolated(a, _fit_open_parallel(a, closed_case)))

\* _parallel_fit_psds has been called with the configuration ctor on a file
\* of n channels; self holds its local variables: what each job of the
\* worker pool returned, and the two lists of the serial path
BatchInit ==
    /\ ctor \in BatchArgs
    /\ \E n \in 1..MaxChannels :
          /\ call \in [op : {"_parallel_fit_psds"}, parallel : BOOLEAN,
                       open : [1..n -> ChannelCases],
                       closed : [1..n -> ChannelCases]]
          /\ self = [jobs |-> [cdx \in 1..n |-> None], open_fit |-> <<>>,
                     closed_fit |-> <<>>]
    /\ out = NotCalled
    /\ fit_called = FALSE
    /\ ncalls = 0
    /\ record_on = "none"

\* a job of the worker pool runs _isolate_fit_joint_parallel on a channel;
\* the jobs run in any order
Worker ==
    \E cdx \in 1..Len(call.open) :
        /\ call.parallel /\ ~out.called
        /\ IsNone(self.jobs[cdx])
        /\ self' = [self EXCEPT !.jobs[cdx] =
                       Some(_isolate_fit_joint_parallel(ctor, call.open[cdx],
                                                        call.closed[cdx]))]
        /\ UNCHANGED <<ctor, call, out, fit_called, ncalls, record_on>>

\* the jobs that raised
FailedJobs(jobs) ==
    {cdx \in 1..Len(jobs) : ~IsNone(jobs[cdx]) /\ Get(jobs[cdx]).exc # "none"}

\* Parallel(...)(...) returns what the jobs returned in the order of the
\* channels, or raises what a job raised
Gather ==
    /\ call.parallel /\ ~out.called
    /\ \/ /\ FailedJobs(self.jobs) # {}
          /\ out' = Got([exc |-> Get(self.jobs[Min(FailedJobs(self.jobs))]).exc,
                         val |-> None])
          /\ UNCHANGED self
       \/ /\ \A cdx \in 1..Len(self.jobs) :
                ~IsNone(self.jobs[cdx]) /\ Get(self.jobs[cdx]).exc = "none"
          /\ self' = [self EXCEPT
                         !.open_fit = [cdx \in 1..Len(self.jobs) |->
                                          Get(Get(self.jobs[cdx]).open)],
                         !.closed_fit = [cdx \in 1..Len(self.jobs) |->
                                            Get(Get(self.jobs[cdx]).closed)]]
          /\ out' = Got([exc |-> "none", val |-> Some([open_fit |-> self'.open_fit,
                                                      closed_fit |-> self'.closed_fit])])
    /\ UNCHANGED <<ctor, call, fit_called, ncalls, record_on>>

\* the serial path, a step of a list comprehension: fitted is what the fit
\* of the next channel gave; what it raises ends _parallel_fit_psds
SerialStep(list, fitted) ==
    /\ IF fitted.exc # "none"
       THEN /\ out' = Got([exc |-> fitted.exc, val |-> None])
            /\ UNCHANGED self
       ELSE /\ self' = [self EXCEPT ![list] = Append(@, Get(fitted.val))]
            /\ UNCHANGED out
    /\ UNCHANGED <<ctor, call, fit_called, ncalls, record_on>>

\* open_fit = [_fit_open_parallel(cdx) for cdx in range(n_channels)]
SerialOpen ==
    /\ ~call.parallel /\ ~out.called
    /\ Len(self.open_fit) < Len(call.open)
    /\ SerialStep("open_fit",
                  _fit_open_parallel(ctor, call.open[Len(self.open_fit) + 1]))

\* closed_fit = [_fit_closed_parallel(cdx) for cdx in range(n_channels)]
SerialClosed ==
    /\ ~call.parallel /\ ~out.called
    /\ Len(self.open_fit) = Len(call.open)
    /\ Len(self.closed_fit) < Len(call.closed)
    /\ SerialStep("closed_fit",
                  _fit_open_parallel(ctor, call.closed[Len(self.closed_fit) + 1]))

\* return open_fit, closed_fit
SerialReturn ==
    /\ ~call.parallel /\ ~out.called
    /\ Len(self.open_fit) = Len(call.open)
    /\ Len(self.closed_fit) = Len(call.closed)
    /\ out' = Got([exc |-> "none", val |-> Some([open_fit |-> self.open_fit,
                                                closed_fit |-> self.closed_fit])])
    /\ UNCHANGED <<self, ctor, call, fit_called, ncalls, record_on>>

BatchNext ==
    \/ Worker
    \/ Gather
    \/ SerialOpen
    \/ SerialClosed
    \/ SerialReturn

BatchSpec == BatchInit /\ [][BatchNext]_vars

----------------------------------------------------------------------------
(* The solvers of a fit, one evaluation at a time *)

\* the evaluations curve_fit is allowed in an aperiodic fit (_maxfev, 5000
\* in the source); the peak fit is allowed twice as many (10000)
MaxFev == 2
Budget(stage) == IF stage = "peaks" THEN 2 * MaxFev ELSE MaxFev

\* the solver fit calls after the one named
NextStage(stage) ==
    CASE stage = "initial" -> "robust"
      [] stage = "robust" -> "peaks"
      [] OTHER -> "simple"

\* every solver converges ("ok"), or the one named is the first that does not
FailingAt(stage) ==
    [k \in {"initial", "robust", "peaks", "simple"} |->
        IF k = stage THEN "RuntimeError" ELSE "ok"]

\* how fit(d) ends on the object s, for each way its solvers may end
Ends(s, d) ==
    [stage \in {"ok", "initial", "robust", "peaks", "simple"} |->
        fit(s, d[1], d[2], None, 5, FailingAt(stage))]

\* the constructions whose fits are followed: BaseArgs, in 'fixed' mode,
\* without line noise, and with standard bands that hold no sample of the
\* spectra
StepArgs ==
    {BaseArgs, [BaseArgs EXCEPT !.aperiodic_mode = "fixed"],
     [BaseArgs EXCEPT !.linenoise = None],
     [BaseArgs EXCEPT !.l_freq = 3, !.h_freq = 2500]}

\* fit is in the solver named: self is the object as fit found it, ends the
\* ways the call may end
Running(stage, ends) ==
    /\ call' = [op |-> "fit", pc |-> stage, nfev |-> 0, ends |-> ends,
                exc |-> "none", raised |-> FALSE, solves |-> NoSolves]
    /\ UNCHANGED <<self, ctor, out, fit_called, ncalls, record_on>>

\* fit has ended as r
Finish(r, ends) ==
    /\ self' = r.s
    /\ call' = [op |-> "fit", pc |-> "done", nfev |-> 0, ends |-> ends,
                exc |-> r.exc, raised |-> r.raised, solves |-> r.solves]
    /\ out' = NotCalled
    /\ fit_called' = TRUE
    /\ ncalls' = ncalls + 1
    /\ record_on' = RecordOn(self, record_on, r, FALSE)
    /\ UNCHANGED ctor

\* fit comes to the call of the solver named, the solvers before having
\* converged: the solver runs when fit gets as far as calling it and the
\* model can be evaluated on the data; otherwise fit has ended
Enter(stage, ends) ==
    IF ends["ok"].solves[stage] = "ok"
    THEN Running(stage, ends)
    ELSE Finish(ends["ok"], ends)

\* obj.fit(freqs, power_spectrum) is called on the object constructed
BeginFit ==
    /\ call.op = "__init__"
    /\ \E d \in FitDataArgs : Enter("initial", Ends(self, d))

\* a count of evaluations that starts again when it reaches the budget
EvaluatedFromZero(nfev, budget) == (nfev + 1) % budget

\* the count of evaluations after one more
Evaluated(nfev, budget) == nfev + 1

\* the solver evaluates the model once more, within its budget
Evaluate ==
    /\ call.op = "fit" /\ call.pc # "done"
    /\ call.nfev < Budget(call.pc)
    /\ call' = [call EXCEPT !.nfev = Evaluated(call.nfev, Budget(call.pc))]
    /\ UNCHANGED <<self, ctor, out, fit_called, ncalls, record_on>>

\* the solver returns parameters, and fit goes on to its next solver, or to
\* its end after the last one
Converge ==
    /\ call.op = "fit" /\ call.pc # "done"
    /\ call.nfev >= 1
    /\ IF call.pc = "simple"
       THEN Finish(call.ends["ok"], call.ends)
       ELSE Enter(NextStage(call.pc), call.ends)

\* the solver has used its budget and raises a RuntimeError
Exhaust ==
    /\ call.op = "fit" /\ call.pc # "done"
    /\ call.nfev >= Budget(call.pc)
    /\ Finish(call.ends[call.pc], call.ends)

\* a step of the solver that is running
Solve ==
    \/ Evaluate
    \/ Converge
    \/ Exhaust

StepNext ==
    \/ BeginFit
    \/ Solve

\* the solvers are synchronous: one that has been called keeps running
StepSpec == InitOver(StepArgs) /\ [][StepNext]_vars /\ WF_vars(Solve)

----------------------------------------------------------------------------
(* Properties *)

\* the last call was a fit that caught a FitError and returned
ContainedFailure == call.op = "fit" /\ call.raised /\ call.exc = "none"

\* the resolved band scheme of the construction
ResolvedBands ==
    str2band(ctor.bands, ctor.max_n_peaks, ctor.l_freq, ctor.h_freq,
             ctor.n_division).bands

\* both arguments of the last call were arrays of one dimension
GivenArrays ==
    /\ call.given.ftype = "ndarray" /\ call.given.ptype = "ndarray"
    /\ call.given.fndim = 1 /\ call.given.pndim = 1

\* C1: get_params_out raises NoModelError as long as fit has not been called
\* (before any data is attached, after add_data) and after a fit that
\* contained a FitError; it returns no record then, in particular none of an
\* earlier successful fit.
C1_NoModelError ==
    (out.called /\ (~fit_called \/ ContainedFailure))
        => (out.exc = "NoModelError" /\ IsNone(out.val))

\* C1, its case: get_params_out has raised NoModelError after a fit that
\* contained a FitError on an object that held a model before that fit
C1_AfterContainedFailure ==
    /\ out.called /\ out.exc = "NoModelError"
    /\ ContainedFailure
    /\ call.had_model

\* C2: when a FitError is raised in fit and the object is not in debug mode,
\* fit returns without raising and every result field is reset: the aperiodic
\* parameters are all nan, the gaussian and peak parameters empty, r_squared_
\* and error_ nan, and the modelled, flattened and peak-removed spectrum, the
\* aperiodic curve, the peak curve and the line-noise results None.
C2_FitErrorResets ==
    (call.op = "fit" /\ call.raised /\ ~self._debug)
        => /\ call.exc = "none"
           /\ Len(self.aperiodic_params_) > 0
           /\ \A i \in 1..Len(self.aperiodic_params_) :
                 IsNanValue(self.aperiodic_params_[i])
           /\ self.gaussian_params_ = <<>>
           /\ self.peak_params_ = <<>>
           /\ IsNanValue(self.r_squared_)
           /\ IsNanValue(self.error_)
           /\ IsNone(self.modeled_spectrum_)
           /\ IsNone(self._spectrum_flat)
           /\ IsNone(self._spectrum_peak_rm)
           /\ IsNone(self._ap_fit)
           /\ IsNone(self._peak_fit)
           /\ IsNone(self._noise_pks)
           /\ IsNone(self._noise_ranges)

\* C2, its case: the second solve of the robust fit failed in a fit on the
\* attached data of an object that is not in debug mode and held a model
C2_RobustFitFailed ==
    /\ call.op = "fit" /\ call.raised /\ ~self._debug
    /\ call.solves.robust \in {"RuntimeError", "TypeError"}
    /\ call.given.ftype = "None"
    /\ call.had_model

\* C3: a FitError raised in fit reaches the caller exactly when the object is
\* in debug mode, and fit never ends with a FitError when it is not.
C3_FitErrorIffDebug ==
    call.op = "fit"
        => /\ call.raised => (call.exc = "FitError" <=> self._debug)
           /\ call.exc = "FitError" => (call.raised /\ self._debug)

\* C3, its case: a fit in debug mode ended with the FitError of the robust fit
C3_RaisedInDebug ==
    /\ call.op = "fit" /\ call.raised /\ self._debug
    /\ call.exc = "FitError"
    /\ call.solves.robust = "RuntimeError"

\* C4: when a solver of an aperiodic fit (the initial simple fit, the robust
\* fit's second solve, the final simple fit) does not converge and the object
\* is not in debug mode, fit returns without raising and holds no model.
C4_NonConvergenceContained ==
    (/\ call.op = "fit" /\ ~self._debug
     /\ "RuntimeError" \in {call.solves.initial, call.solves.robust, call.solves.simple})
        => (call.exc = "none" /\ ~has_model(self))

\* C5: the aperiodic parameters an object holds were fitted on the spectrum
\* it holds, or on one that add_data replaced with clear_results=False.
C5_RecordOnItsSpectrum ==
    has_model(self) => record_on \in {"current", "kept"}

\* C6: fit called with no arguments on an object with no data attached raises
\* NoDataError.
C6_NoDataError ==
    (/\ call.op = "fit"
     /\ call.given.ftype = "None" /\ call.given.ptype = "None"
     /\ ~call.had_data)
        => call.exc = "NoDataError"

\* C7 as stated: add_data raises a DataError when an argument is not a numpy
\* array, when one is not one-dimensional, when the lengths differ, or when
\* the power is complex.
C7_DataError ==
    (/\ call.op = "add_data"
     /\ \/ ~GivenArrays
        \/ ~call.given.same_len
        \/ call.given.pcomplex)
        => call.exc = "DataError"

\* C7: add_data raises a DataError when an argument is not a numpy array or
\* not one-dimensional, an InconsistentDataError when both are one-dimensional
\* arrays of different lengths (complex or not), and a DataError when they
\* are equally long and the power is complex.
C7_ValidationErrors ==
    call.op = "add_data"
        => /\ ~GivenArrays => call.exc = "DataError"
           /\ (GivenArrays /\ ~call.given.same_len)
                 => call.exc = "InconsistentDataError"
           /\ (GivenArrays /\ call.given.same_len /\ call.given.pcomplex)
                 => call.exc = "DataError"

\* C7, its case: add_data got a complex power array of another length than
\* the frequencies and raised InconsistentDataError
C7_LengthsDiffer ==
    /\ call.op = "add_data"
    /\ GivenArrays /\ ~call.given.same_len /\ call.given.pcomplex
    /\ call.exc = "InconsistentDataError"

\* C8: every retained band has its upper edge above l_freq and its lower edge
\* below h_freq, and the retained bands are the bands of the resolved scheme
\* that do, in their order.
C8_BandsInRange ==
    /\ \A i \in 1..Len(self.bands) :
          self.bands[i][2] > self.l_freq /\ self.bands[i][1] < self.h_freq
    /\ self.bands =
          SelectIdx(ResolvedBands,
                    {i \in 1..Len(ResolvedBands) :
                        /\ ResolvedBands[i][2] > ctor.l_freq
                        /\ ResolvedBands[i][1] < ctor.h_freq})

\* C8, its case: a fit has returned on an object whose construction dropped a
\* band that ends at l_freq and one that starts at h_freq
C8_EdgeBandsDropped ==
    /\ call.op = "fit" /\ call.exc = "none"
    /\ \E i \in 1..Len(ResolvedBands) : ResolvedBands[i][2] = self.l_freq
    /\ \E i \in 1..Len(ResolvedBands) : ResolvedBands[i][1] = self.h_freq
    /\ Len(self.bands) < Len(ResolvedBands)

\* C9: the retained bands, the frequency cutoffs, the aperiodic mode, the
\* line-noise frequency and the prominence of the harmonic detection are
\* those the constructor fixed.
C9_ConfigurationFixed ==
    /\ self.bands = Construct(ctor).bands
    /\ self.l_freq = ctor.l_freq
    /\ self.h_freq = ctor.h_freq
    /\ self.aperiodic_mode = ctor.aperiodic_mode
    /\ self.linenoise = ctor.linenoise
    /\ self.prominence = ctor.prominence

\* C10: after add_data has returned, the first stored frequency is above 0
\* and there are as many stored frequencies as power values.
C10_FirstFrequencyPositive ==
    (call.op = "add_data" /\ call.exc = "none")
        => /\ Get(self.freqs)[1] > 0
           /\ Len(Get(self.freqs)) = Len(Get(self.power_spectrum))

\* the last call handed one-dimensional arrays of equal length and real power
\* to add_data, directly or through fit
DataGiven ==
    /\ call.op \in {"add_data", "fit"}
    /\ GivenArrays /\ call.given.same_len /\ ~call.given.pcomplex

C12_ModeFromLength ==
    call.op = "infer_ap_func"
        => /\ Len(call.args) = 2 => (out.exc = "none" /\ out.val = "fixed")
           /\ Len(call.args) = 3 => (out.exc = "none" /\ out.val = "knee")
           /\ Len(call.args) \notin {2, 3} => out.exc = "InconsistentDataError"

\* C12, its case: infer_ap_func was called with four parameters and raised
C12_FourParameters ==
    /\ call.op = "infer_ap_func"
    /\ Len(call.args) = 4
    /\ out.exc = "InconsistentDataError"

\* C13: str2band resolves a name to a band list exactly when the name is one
\* the constructor documents as an option of bands; it raises a ValueError
\* for every other name and for an argument that is neither a string nor a
\* list.
C13_DocumentedNamesResolve ==
    call.op = "str2band"
        => /\ call.args.bands.kind = "str"
                 => (out.exc = "none" <=> call.args.bands.name \in DocumentedBands)
           /\ call.args.bands.kind = "str"
                 => out.exc \in {"none", "ValueError"}
           /\ call.args.bands.kind \notin {"str", "list"}
                 => out.exc = "ValueError"

\* the last call was str2band with a name, and returned
Str2BandReturned ==
    /\ call.op = "str2band" /\ call.args.bands.kind = "str"
    /\ out.exc = "none"

\* C14: for the schemes 'log', 'linear' and 'log10', a positive l_freq and no
\* subdivision, str2band returns min(max_n_peaks, 62) bands, the first
\* starting at l_freq, the last ending at h_freq, each ending where the next
\* one starts.
C14_GeneratedSchemes ==
    (/\ Str2BandReturned
     /\ call.args.bands.name \in {"log", "linear", "log10"}
     /\ call.args.range[1] > 0
     /\ call.args.n_division = 1)
        => LET bands == Get(out.val).bands
           IN /\ Len(bands) = Min({call.args.max_n_peaks, MaxLogPeaks})
              /\ bands[1][1] = call.args.range[1]
              /\ bands[Len(bands)][2] = call.args.range[2]
              /\ \A i \in 1..(Len(bands) - 1) : bands[i][2] = bands[i+1][1]

\* the bands str2band gives for the arguments of the last call without
\* subdivision
Undivided ==
    str2band(call.args.bands, call.args.max_n_peaks, call.args.range[1],
             call.args.range[2], 1).bands

\* C15: for a name or a list of pairs that str2band accepts and n_division =
\* n > 1, the bands returned are n for each band of the undivided scheme:
\* the first of them starts where that band starts, the last ends where it
\* ends, and each ends where the next one starts.
C15_Subdivision ==
    (call.op = "str2band" /\ out.exc = "none" /\ call.args.n_division > 1)
        => LET bands == Get(out.val).bands
               n == call.args.n_division
           IN /\ Len(bands) = n * Len(Undivided)
              /\ \A b \in 1..Len(Undivided) :
                    /\ bands[(b-1) * n + 1][1] = Undivided[b][1]
                    /\ bands[b * n][2] = Undivided[b][2]
                    /\ \A d \in 1..(n-1) :
                          bands[(b-1) * n + d][2] = bands[(b-1) * n + d + 1][1]

\* the last call was a fit that ran to its end, and get_params_out has
\* returned its record
FittedRecord ==
    /\ call.op = "fit" /\ call.exc = "none" /\ ~call.raised
    /\ out.called /\ out.exc = "none"

\* C16: the record get_nan_params gives for the arguments of the
\* construction has fields as long as those of the record get_params_out
\* returns after a fit of that object that ran to its end, and its r_squared
\* and error are nan.
C16_PlaceholderShape ==
    FittedRecord
        => /\ get_nan_params(ctor).exc = "none"
           /\ \A f \in {"aperiodic_params", "gaussian_params", "noise_pks",
                         "noise_wids", "peak_params"} :
                 Len(Get(get_nan_params(ctor).val)[f]) = Len(Get(out.val)[f])
           /\ IsNanValue(Get(get_nan_params(ctor).val).r_squared)
           /\ IsNanValue(Get(get_nan_params(ctor).val).error)

\* the harmonics of the line noise up to the highest frequency the object
\* holds
ExpectedHarmonics ==
    IF IsNone(self.linenoise) THEN 0
    ELSE Max({0, Max(Range(Get(self.freqs))) \div Get(self.linenoise)})

\* the line-noise peaks the object holds
HeldNoisePeaks == IF IsNone(self._noise_pks) THEN <<>> ELSE Get(self._noise_pks)

\* the detections held whose nearest expected harmonic is the ii-th of n
NearestTo(ii, n) ==
    {k \in 1..Len(HeldNoisePeaks) :
        \A jj \in 1..n :
            LET d(h) == IF HeldNoisePeaks[k] >= Get(self.linenoise) * h
                        THEN HeldNoisePeaks[k] - Get(self.linenoise) * h
                        ELSE Get(self.linenoise) * h - HeldNoisePeaks[k]
            IN d(ii) < d(jj) \/ (d(ii) = d(jj) /\ ii <= jj)}

ReachedMetricStep == call.op = "fit" /\ call.solves.simple = "ok"

Fitted == call.op = "fit" /\ call.exc = "none" /\ ~call.raised

\* every aperiodic parameter held is the result of the step named
ParamsOf(step) ==
    /\ Len(self.aperiodic_params_) > 0
    /\ \A i \in 1..Len(self.aperiodic_params_) : self.aperiodic_params_[i] = <<step>>

\* C19: fit runs its solvers in the order robust aperiodic fit (an initial
\* and a second solve), peak fit, final simple aperiodic fit, each only after
\* the one before it was solved.  A fit stopped at the peak fit holds the
\* robust parameters with the aperiodic curve and the flattened spectrum of
\* them; one stopped at the final fit holds, besides, three gaussian
\* parameters for each retained band, the peak curve and the peak-removed
\* spectrum.  A fit that ran to its end holds the parameters of the final
\* simple fit, the aperiodic curve and the flattened spectrum of these, the
\* model that is the sum of the peak curve and that aperiodic curve, one
\* row of peak parameters for each retained band, r squared and the error.
C19_FitOrder ==
    call.op = "fit"
        => /\ call.solves.robust # "not called" => call.solves.initial = "ok"
           /\ call.solves.peaks # "not called" => call.solves.robust = "ok"
           /\ call.solves.simple # "not called" => call.solves.peaks = "ok"
           /\ (call.solves.robust = "ok" /\ call.solves.simple # "ok" /\ ~call.raised)
                 => /\ ParamsOf("robust")
                    /\ self._ap_fit = Some(<<"ap_fit", "robust">>)
                    /\ self._spectrum_flat = Some(<<"flat", "robust">>)
           /\ (call.solves.peaks = "ok" /\ call.solves.simple \notin {"ok", "not called"})
                 => /\ Len(self.gaussian_params_) = 3 * Len(self.bands)
                    /\ ~IsNone(self._peak_fit)
                    /\ self._spectrum_peak_rm = Some(<<"peak_rm">>)
           /\ Fitted
                 => /\ call.solves.simple = "ok"
                    /\ ParamsOf("simple")
                    /\ self._ap_fit = Some(<<"ap_fit", "simple">>)
                    /\ self._spectrum_flat = Some(<<"flat", "simple">>)
                    /\ ~IsNone(self._peak_fit)
                    /\ self.modeled_spectrum_ =
                          Some(<<"model", Get(self._peak_fit), Get(self._ap_fit)>>)
                    /\ Len(self.gaussian_params_) = 3 * Len(self.bands)
                    /\ Len(self.peak_params_) = Len(self.bands)
                    /\ self.r_squared_ = <<"r_squared">>
                    /\ self.error_ = <<self._error_metric>>

\* C19, its case: a fit with data ran to its end on an object that held no
\* model, and holds the parameters of the final simple fit
C19_FittedOnData ==
    /\ Fitted /\ DataGiven
    /\ ~call.had_model
    /\ ParamsOf("simple")
    /\ call.solves = [initial |-> "ok", robust |-> "ok", peaks |-> "ok",
                       simple |-> "ok"]

\* C20: the conditioning checks the spacing of the frequencies before it
\* looks for powerline harmonics: when the first call on an object is an
\* add_data whose kept frequencies are unevenly spaced, with the frequency
\* check on, it raises a DataError and the object holds no line-noise peak
\* and no line-noise range.
C20_UnevenBeforeHarmonics ==
    (/\ ncalls = 1 /\ call.op = "add_data" /\ DataGiven
     /\ self._check_freqs /\ call.given.kept_uneven)
        => /\ call.exc = "DataError"
           /\ IsNone(self._noise_pks) \/ Get(self._noise_pks) = <<>>
           /\ IsNone(self._noise_ranges) \/ Get(self._noise_ranges) = <<>>

\* C21: the line-noise peaks detected in the first spectrum given to an
\* object each lie within 5 % of a multiple k * linenoise of the configured
\* line-noise frequency, k = 1 .. floor(highest frequency held / linenoise),
\* the multiples that label the noise slots of the record.
C21_HarmonicsOfLinenoise ==
    (ncalls = 1 /\ DataGiven /\ call.exc = "none")
        => \A k \in 1..Len(HeldNoisePeaks) :
              \E ii \in 1..ExpectedHarmonics :
                  IsCloseHarmonic(HeldNoisePeaks[k], Get(self.linenoise) * ii)

\* the object of the construction with iterate_peaks left at False
WithoutIteratePeaks == Construct([ctor EXCEPT !.iterate_peaks = FALSE])

\* fit(d) with the solvers ending as c brought the object from its
\* construction to the state it is in, and brings the object constructed
\* without iterate_peaks to the same state and the same record
SameWithoutIteratePeaks(d, c) ==
    /\ fit(Construct(ctor), d[1], d[2], None, 5, c).s = self
    /\ fit(Construct(ctor), d[1], d[2], None, 5, c).exc = call.exc
    /\ fit(WithoutIteratePeaks, d[1], d[2], None, 5, c).exc = call.exc
    /\ [fit(WithoutIteratePeaks, d[1], d[2], None, 5, c).s
           EXCEPT !.iterate_peaks = TRUE] = self
    /\ get_params_out(fit(WithoutIteratePeaks, d[1], d[2], None, 5, c).s)
          = get_params_out(self)

\* C22: iterate_peaks has no effect on fitting: when the first call on an
\* object constructed with iterate_peaks=True is a fit with data, the same
\* fit on the object constructed with iterate_peaks=False ends the same way,
\* in the same state but for the flag, with the same record.
C22_IteratePeaksNoEffect ==
    (ncalls = 1 /\ call.op = "fit" /\ GivenArrays /\ ctor.iterate_peaks)
        => \E d \in FitDataArgs, c \in SolverChoices : SameWithoutIteratePeaks(d, c)

\* the record _parallel_fit_psds owes for a channel: the one of its fit, or
\* the one of get_nan_params when the fit or get_params_out raised
ChannelRecord(case) ==
    IF _fit_open_parallel(ctor, case).exc = "none"
    THEN Get(_fit_open_parallel(ctor, case).val)
    ELSE Get(get_nan_params(ctor).val)

\* C23: _parallel_fit_psds returns, on the parallel and on the serial path,
\* an open and a closed list with one record for each channel in the order
\* of the channels: the record of the fit of the channel, and the record of
\* get_nan_params for a channel whose fit or get_params_out raised.
C23_FailuresContained ==
    out.called
        => /\ out.exc = "none"
           /\ Get(out.val).open_fit =
                 [cdx \in 1..Len(call.open) |-> ChannelRecord(call.open[cdx])]
           /\ Get(out.val).closed_fit =
                 [cdx \in 1..Len(call.closed) |-> ChannelRecord(call.closed[cdx])]

\* a fit is in one of its solvers
InSolver == call.op = "fit" /\ call.pc # "done"

\* a fit has ended: fitted, failed with its results reset, or by raising
FitEnded ==
    /\ call.op = "fit" /\ call.pc = "done"
    /\ \/ call.exc # "none"
       \/ ~call.raised /\ has_model(self)
       \/ call.raised /\ ~has_model(self)

C25_CompleteRecord ==
    (call.op = "fit" /\ has_model(self))
        => /\ Len(self.gaussian_params_) = 3 * Len(self.bands)
           /\ Len(self.peak_params_) = Len(self.bands)
           /\ Len(self.aperiodic_params_) =
                 (IF self.aperiodic_mode = "fixed" THEN 2 ELSE 3)
           /\ ~IsNone(self.modeled_spectrum_)
           /\ ~IsNanValue(self.r_squared_)
           /\ ~IsNanValue(self.error_)

\* C26: after an add_data that returned, has_data is True and fit() with no
\* arguments does not raise NoDataError, however its solvers end.
C26_DataAfterAddData ==
    (call.op = "add_data" /\ call.exc = "none")
        => /\ has_data(self)
           /\ \A c \in SolverChoices :
                 fit(self, NoArg, NoArg, None, 5, c).exc # "NoDataError"


\* the line-noise peaks the object holds are frequencies of the spectrum
\* attached, and without frequencies attached none is held
PeaksOfAttached ==
    IF IsNone(self.freqs) THEN HeldNoisePeaks = <<>>
    ELSE \A k \in 1..Len(HeldNoisePeaks) :
            HeldNoisePeaks[k] \in Range(Get(self.freqs))

\* C27: after any sequence of add_data and fit calls the line-noise peaks held
\* were detected in the spectrum attached now, never in an earlier one, and
\* get_params_out on a fitted object returns a record and does not raise.
C27_PeaksOfAttachedSpectrum ==
    /\ PeaksOfAttached
    /\ (out.called /\ has_model(self)) => (out.exc = "none" /\ ~IsNone(out.val))


\* a retained band holds no frequency of the attached spectrum
EmptyBandAttached ==
    /\ ~IsNone(self.freqs)
    /\ \E b \in 1..Len(self.bands) :
          ~\E i \in 1..Len(Get(self.freqs)) :
                InBand(Get(self.freqs)[i], self.bands[b], self.log_freqs)

\* C28: outside debug mode a fit on an attached spectrum whose aperiodic fit
\* converged ends fitted or failed without raising, also when a retained band
\* holds no frequency of that spectrum.
C28_EmptyBandContained ==
    (call.op = "fit" /\ ~self._debug /\ call.solves.robust = "ok"
        /\ EmptyBandAttached)
        => call.exc = "none"


\* the call just made was fit() without arguments and it contained a failure
\* of its solvers
ContainedFailureOfAttached ==
    /\ ContainedFailure
    /\ call.given.ftype = "None"
    /\ call.given.ptype = "None"

\* C29: a fit() on the attached data that contains its failure leaves freqs,
\* power_spectrum, freq_range and freq_res as they were before the call, with
\* has_data True and has_model False, and a further fit() finds the data.
C29_FailureKeepsData ==
    [][(ncalls' = ncalls + 1 /\ ContainedFailureOfAttached')
        => /\ self'.freqs = self.freqs
           /\ self'.power_spectrum = self.power_spectrum
           /\ self'.freq_range = self.freq_range
           /\ self'.freq_res = self.freq_res
           /\ has_data(self')
           /\ ~has_model(self')
           /\ \A c \in SolverChoices :
                 fit(self', NoArg, NoArg, None, 5, c).exc # "NoDataError"]_vars

\* a fit() on the attached data of a fitted object contained its failure: the
\* data is held and the model is gone
C29_FailedOnAttached ==
    /\ ContainedFailureOfAttached
    /\ call.had_data
    /\ call.had_model
    /\ has_data(self)
    /\ ~has_model(self)


\* the call just made was an add_data with clear_results=True, on an object
\* that held data and a model, that raised a data error
RejectedOnFitted ==
    /\ call.op = "add_data"
    /\ call.clear_results
    /\ call.exc \in {"DataError", "InconsistentDataError"}
    /\ call.had_data
    /\ call.had_model

\* C30: when add_data with clear_results=True raises a data error on an object
\* that holds data and a fit record, freqs and power_spectrum are None and
\* has_model is False afterwards, and get_params_out raises NoModelError
\* rather than returning the previous record.
C30_RejectedClearsAll ==
    RejectedOnFitted
        => /\ IsNone(self.freqs)
           /\ IsNone(self.power_spectrum)
           /\ ~has_data(self)
           /\ ~has_model(self)
           /\ out.called => (out.exc = "NoModelError" /\ IsNone(out.val))

\* a fitted object rejected a spectrum and get_params_out was called on it
C30_RejectedThenRead ==
    /\ RejectedOnFitted
    /\ out.called
    /\ out.exc = "NoModelError"

====
